---- MODULE Spec2Model ----
(***************************************************************************)
(* Model of the search service of src/search_api.py: the startup check,    *)
(* the validation of the /search parameters, get_elasticsearch_client and  *)
(* the search handler, with the search engine as an opaque service whose   *)
(* replies are chosen nondeterministically.                                *)
(***************************************************************************)
EXTENDS Integers, Sequences, FiniteSets, TLC

VARIABLES
    ES_INDEX,        \* module constant ES_INDEX = os.getenv('ES_INDEX')
    appState,        \* position of startup_event / the application's life cycle
    startupEvents,   \* what startup_event did: client construction and engine calls
    clientsCreated,  \* number of Elasticsearch client objects constructed so far
    pc,              \* pc[r]: position of request r in the search handler
    req,             \* req[r]: the query parameters of request r
    events,          \* events[r]: what request r did: client construction and engine calls
    resp             \* resp[r]: the HTTP response of request r

vars == <<ES_INDEX, appState, startupEvents, clientsCreated, pc, req, events, resp>>

---------------------------------------------------------------------------
(* Bounds of the model *)

\* pages offered to the endpoint are 0..MaxPage
MaxPage == 2
\* the engine reports totals in 0..MaxTotal
MaxTotal == 1
\* the engine returns hit lists of at most MaxHits hits
MaxHits == 2

\* the requests handled concurrently
Requests == {"r1", "r2"}

---------------------------------------------------------------------------
(* Program constants *)

\* page: int = Query(1, ge=1)
PageGe == 1
\* page_size: int = Query(10, ge=1, le=100)
PageSizeGe == 1
PageSizeLe == 100

\* status codes of the three except clauses, of a returned SearchResult and
\* of a request the framework rejects on its Query constraints
ServiceUnavailable == 503
BadRequest == 400
InternalServerError == 500
Ok == 200
UnprocessableEntity == 422

\* the fields both multi_match clauses search
SearchFields == <<"name^3", "description^2", "category.name", "tags">>

---------------------------------------------------------------------------
(* Inputs *)

\* os.getenv('ES_INDEX'): None, the empty string, or a name
EnvIndexValues ==
    { [isSet |-> FALSE, name |-> ""],
      [isSet |-> TRUE, name |-> ""],
      [isSet |-> TRUE, name |-> "products"] }

QueryInputs == {"phon"}
PageInputs == 0..MaxPage
PageSizeInputs == {PageSizeGe - 1, 2, 10, PageSizeLe, PageSizeLe + 1}

\* hits as the engine returns them; a highlight map is a set of <<field, snippet>>
HitWithHighlight ==
    [_id |-> "p1", _score |-> 2, _source |-> [id |-> 1, name |-> "phone"],
     highlight |-> {<<"name", "<em>phone</em>">>}]
HitWithoutHighlight ==
    [_id |-> "p2", _score |-> 1, _source |-> [id |-> 2, name |-> "phonograph"]]
EngineHits == {HitWithHighlight, HitWithoutHighlight}

RECURSIVE SeqsUpTo(_, _)
SeqsUpTo(S, n) ==
    IF n = 0 THEN {<<>>}
    ELSE LET shorter == SeqsUpTo(S, n - 1)
         IN  shorter \cup {Append(s, x) : s \in {t \in shorter : Len(t) = n - 1}, x \in S}

\* outcomes of Elasticsearch(...): an object, or an exception
ConstructOutcomes == {"ok", "raise"}
\* outcomes of es_client.ping(): True, False, or an exception
PingOutcomes == {"true", "false", "raise"}
\* outcomes of es_client.indices.exists(): True, False, or an exception
ExistsOutcomes == {"true", "false", "raise"}
\* outcomes of es_client.search(): an exception, a response carrying
\* hits.total.value and hits.hits, or a response the handler cannot read
SearchOutcomes ==
    { [kind |-> "raise", exc |-> e] : e \in {"ConnectionError", "RequestError", "NotFoundError"} }
    \cup { [kind |-> "response", wellFormed |-> FALSE] }
    \cup { [kind |-> "response", wellFormed |-> TRUE, total |-> t, hits |-> h] :
             t \in 0..MaxTotal, h \in SeqsUpTo(EngineHits, MaxHits) }

NoRequest == [query |-> "", page |-> 0, page_size |-> 0]
NoResponse == [status |-> 0]

---------------------------------------------------------------------------
(* Pure parts of the program *)

\* `if not ES_INDEX`: truthiness of an Optional[str]
TruthyIsNotNone(v) == v.isSet
Truthy(v) == v.isSet /\ v.name # ""

\* the Query(...) constraints ge=1 on page, ge=1 and le=100 on page_size
ValidParamsNoUpper(page, page_size) == page >= PageGe /\ page_size >= PageSizeGe
ValidParams(page, page_size) ==
    /\ page >= PageGe
    /\ page_size >= PageSizeGe
    /\ page_size <= PageSizeLe

\* from_idx = (page - 1) * page_size
FromIdxOffByOne(page, page_size) == page * page_size
FromIdx(page, page_size) == (page - 1) * page_size

\* the body sent to the engine
SearchQuery(query, from_idx, page_size) ==
    [query |->
        [bool |->
            [should |->
                << [multi_match |->
                       [query |-> query, fields |-> SearchFields, fuzziness |-> "AUTO"]],
                   [multi_match |->
                       [query |-> "*" \o query \o "*", fields |-> SearchFields,
                        type |-> "phrase_prefix"]] >>,
             minimum_should_match |-> 1]],
     from |-> from_idx,
     size |-> page_size,
     highlight |-> [fields |-> {"name", "description"}]]

\* math.ceil(total_hits / page_size), for page_size >= 1 and totals a double
\* holds exactly
FloorDiv(total_hits, page_size) == total_hits \div page_size
CeilDiv(total_hits, page_size) ==
    IF total_hits % page_size = 0
    THEN total_hits \div page_size
    ELSE (total_hits \div page_size) + 1

\* one element of formatted_hits
FormatHitNoHighlight(hit) ==
    [id |-> hit._id, score |-> hit._score, source |-> hit._source, highlights |-> {}]
FormatHit(hit) ==
    [id |-> hit._id,
     score |-> hit._score,
     source |-> hit._source,
     highlights |-> IF "highlight" \in DOMAIN hit THEN hit.highlight ELSE {}]

\* formatted_hits = [ ... for hit in response['hits']['hits']]
FormatHits(hits) == [i \in 1..Len(hits) |-> FormatHit(hits[i])]

\* SearchResult(total=..., hits=..., page=..., page_size=..., total_pages=...)
SearchResultClamped(total_hits, formatted_hits, page, page_size, total_pages) ==
    [status |-> Ok, total |-> total_hits, hits |-> formatted_hits,
     page |-> IF page > total_pages THEN (IF total_pages > 1 THEN total_pages ELSE 1) ELSE page,
     page_size |-> page_size, total_pages |-> total_pages]
SearchResult(total_hits, formatted_hits, page, page_size, total_pages) ==
    [status |-> Ok,
     total |-> total_hits,
     hits |-> formatted_hits,
     page |-> page,
     page_size |-> page_size,
     total_pages |-> total_pages]

\* the except clauses of search, in their order
HandlerStatusCatchAll(exc) == InternalServerError
HandlerStatus(exc) ==
    IF exc = "ConnectionError" THEN ServiceUnavailable
    ELSE IF exc = "RequestError" THEN BadRequest
    ELSE InternalServerError

\* get_elasticsearch_client: the exception it raises ("none" when it returns
\* the client) given what the constructor and ping did; ping is called only
\* when the constructor returned
GetClientRaisesIgnoringPing(construct, ping) ==
    IF construct = "raise" \/ ping = "raise" THEN "ConnectionError" ELSE "none"
GetClientRaises(construct, ping) ==
    IF construct = "raise" THEN "ConnectionError"
    ELSE IF ping = "raise" THEN "ConnectionError"
    ELSE IF ping = "false" THEN "ConnectionError"
    ELSE "none"

\* what get_elasticsearch_client does: the constructor, then ping on the new
\* client when the constructor returned
ClientEvents(construct, ping, id) ==
    IF construct = "raise"
    THEN << [op |-> "construct", client |-> 0, reply |-> [kind |-> "raise"]] >>
    ELSE << [op |-> "construct", client |-> id, reply |-> [kind |-> "object"]],
            [op |-> "ping", client |-> id, reply |-> [kind |-> ping]] >>

\* Elasticsearch(...) builds a new object on every call
CachedClient == IF clientsCreated = 0 THEN clientsCreated + 1 ELSE clientsCreated
NewClient == clientsCreated + 1

\* query, page and page_size are parameters of the handler: locals of request r
ParamsOfLatestOther(r) ==
    IF \E o \in Requests \ {r} : pc[o] # "idle"
    THEN req[CHOOSE o \in Requests \ {r} : pc[o] # "idle"]
    ELSE req[r]
RequestParams(r) == req[r]

\* lines 105-126 and the except clauses: the response of the handler for what
\* es_client.search did, for the parameters p
SearchResponse(reply, p) ==
    IF reply.kind = "raise" THEN [status |-> HandlerStatus(reply.exc)]
    ELSE IF ~reply.wellFormed THEN [status |-> HandlerStatus("KeyError")]
    ELSE LET total_hits == reply.total
             total_pages == CeilDiv(total_hits, p.page_size)
             formatted_hits == FormatHits(reply.hits)
         IN  SearchResult(total_hits, formatted_hits, p.page, p.page_size, total_pages)

---------------------------------------------------------------------------
(* The state machine *)

Init ==
    /\ ES_INDEX \in EnvIndexValues
    /\ appState = "startup"
    /\ startupEvents = <<>>
    /\ clientsCreated = 0
    /\ pc = [r \in Requests |-> "idle"]
    /\ req = [r \in Requests |-> NoRequest]
    /\ events = [r \in Requests |-> <<>>]
    /\ resp = [r \in Requests |-> NoResponse]

\* startup_event: any exception it raises makes the application fail to start
StartupEvent ==
    /\ appState = "startup"
    /\ IF ~Truthy(ES_INDEX)
       THEN /\ appState' = "failed"
            /\ UNCHANGED <<startupEvents, clientsCreated>>
       ELSE \E construct \in ConstructOutcomes, ping \in PingOutcomes, exists \in ExistsOutcomes :
               LET id == NewClient
                   raised == GetClientRaises(construct, ping)
               IN  /\ startupEvents' =
                          ClientEvents(construct, ping, id) \o
                          (IF raised = "none"
                           THEN << [op |-> "exists", client |-> id,
                                    index |-> ES_INDEX.name, reply |-> [kind |-> exists]] >>
                           ELSE <<>>)
                   /\ clientsCreated' =
                          IF construct = "ok" THEN clientsCreated + 1 ELSE clientsCreated
                   /\ appState' =
                          IF raised = "none" /\ exists = "true" THEN "serving" ELSE "failed"
    /\ UNCHANGED <<ES_INDEX, pc, req, events, resp>>

\* GET /search arrives: the framework checks the Query constraints and calls
\* the handler only when they hold
Receive(r) ==
    /\ appState = "serving"
    /\ pc[r] = "idle"
    /\ \E query \in QueryInputs, page \in PageInputs, page_size \in PageSizeInputs :
          /\ req' = [req EXCEPT ![r] = [query |-> query, page |-> page, page_size |-> page_size]]
          /\ IF ValidParams(page, page_size)
             THEN /\ pc' = [pc EXCEPT ![r] = "validated"]
                  /\ resp' = resp
             ELSE /\ pc' = [pc EXCEPT ![r] = "done"]
                  /\ resp' = [resp EXCEPT ![r] = [status |-> UnprocessableEntity]]
    /\ UNCHANGED <<ES_INDEX, appState, startupEvents, clientsCreated, events>>

\* es_client = get_elasticsearch_client(), and the except clause its
\* ConnectionError reaches
GetClient(r) ==
    /\ pc[r] = "validated"
    /\ \E construct \in ConstructOutcomes, ping \in PingOutcomes :
          LET id == NewClient
              raised == GetClientRaises(construct, ping)
          IN  /\ events' = [events EXCEPT ![r] = ClientEvents(construct, ping, id)]
              /\ clientsCreated' =
                     IF construct = "ok" THEN clientsCreated + 1 ELSE clientsCreated
              /\ IF raised = "none"
                 THEN /\ pc' = [pc EXCEPT ![r] = "searching"]
                      /\ resp' = resp
                 ELSE /\ pc' = [pc EXCEPT ![r] = "done"]
                      /\ resp' = [resp EXCEPT ![r] = [status |-> HandlerStatus(raised)]]
    /\ UNCHANGED <<ES_INDEX, appState, startupEvents, req>>

\* es_client.search(index=ES_INDEX, body=search_query), the processing of its
\* response and the except clauses
Search(r) ==
    /\ pc[r] = "searching"
    /\ \E reply \in SearchOutcomes :
          LET p == RequestParams(r)
              from_idx == FromIdx(p.page, p.page_size)
              search_query == SearchQuery(p.query, from_idx, p.page_size)
              es_client == events[r][1].client
          IN  /\ events' = [events EXCEPT ![r] =
                     Append(@, [op |-> "search", client |-> es_client,
                                index |-> ES_INDEX.name, body |-> search_query,
                                reply |-> reply])]
              /\ resp' = [resp EXCEPT ![r] = SearchResponse(reply, p)]
    /\ pc' = [pc EXCEPT ![r] = "done"]
    /\ UNCHANGED <<ES_INDEX, appState, startupEvents, clientsCreated, req>>

Next ==
    \/ StartupEvent
    \/ \E r \in Requests : Receive(r)
    \/ \E r \in Requests : GetClient(r)
    \/ \E r \in Requests : Search(r)

Spec == Init /\ [][Next]_vars

---------------------------------------------------------------------------
(* What the properties read from the state *)

Done(r) == pc[r] = "done"
Succeeded(r) == Done(r) /\ resp[r].status = Ok
MeetsConstraints(r) ==
    /\ req[r].page >= 1
    /\ req[r].page_size >= 1
    /\ req[r].page_size <= 100
IsEngineCall(e) == e.op \in {"ping", "search", "exists"}
Failed(e) == e.reply.kind \in {"raise", "false"}
EngineCalls(r) == SelectSeq(events[r], IsEngineCall)
SearchCalls(r) == SelectSeq(events[r], LAMBDA e : e.op = "search")
PingCalls(r) == SelectSeq(events[r], LAMBDA e : e.op = "ping")
\* the client objects request r constructed
ClientsOf(r) == {events[r][i].client : i \in {j \in DOMAIN events[r] : events[r][j].op = "construct"
                                                    /\ events[r][j].reply.kind = "object"}}
StartupClients == {startupEvents[i].client : i \in {j \in DOMAIN startupEvents :
                                                    startupEvents[j].op = "construct"
                                                    /\ startupEvents[j].reply.kind = "object"}}
\* the reply of the engine to the search call of a request that made one
SearchReplyOf(r) == SearchCalls(r)[1].reply

---------------------------------------------------------------------------
(* C1 *)

\* C1: a successful response carries the total the engine reported for that
\* request and total_pages = ceil(total / page_size): 0 when total = 0, and
\* otherwise total_pages * page_size >= total > (total_pages - 1) * page_size.
C1_TotalPagesIsCeil ==
    \A r \in Requests :
        Succeeded(r) =>
            LET total == SearchReplyOf(r).total
                page_size == req[r].page_size
                total_pages == resp[r].total_pages
            IN  /\ MeetsConstraints(r)
                /\ resp[r].total = total
                /\ (total = 0 => total_pages = 0)
                /\ (total > 0 => /\ total_pages * page_size >= total
                                 /\ total > (total_pages - 1) * page_size)

\* a success whose total is no multiple of the page size
C1_Witness ==
    \E r \in Requests :
        /\ Succeeded(r)
        /\ resp[r].total % req[r].page_size # 0
        /\ resp[r].total_pages = 1

---------------------------------------------------------------------------
(* C2 *)

\* C2: every search call a request sends to the engine has
\* from = (page - 1) * page_size and size = page_size.
C2_OffsetAndSize ==
    \A r \in Requests :
        \A i \in DOMAIN events[r] :
            events[r][i].op = "search" =>
                /\ MeetsConstraints(r)
                /\ events[r][i].body.from = (req[r].page - 1) * req[r].page_size
                /\ events[r][i].body.size = req[r].page_size

\* page=2, page_size=10 reached the engine with from=10, size=10
C2_Witness ==
    \E r \in Requests :
        /\ req[r].page = 2
        /\ req[r].page_size = 10
        /\ Len(SearchCalls(r)) = 1
        /\ SearchCalls(r)[1].body.from = 10
        /\ SearchCalls(r)[1].body.size = 10

---------------------------------------------------------------------------
(* C3 *)

\* C3: a request whose page_size is outside [1,100] or whose page is below 1
\* is rejected before any engine call: it constructs no client and issues
\* neither a ping nor a search.
C3_RejectedBeforeEngine ==
    \A r \in Requests :
        (pc[r] # "idle" /\ ~MeetsConstraints(r)) =>
            /\ Done(r)
            /\ resp[r].status = UnprocessableEntity
            /\ events[r] = <<>>

\* a request with page_size = 101 and one with page = 0 were both rejected
C3_Witness ==
    \E r, o \in Requests :
        /\ Done(r) /\ req[r].page_size = 101 /\ req[r].page >= 1
        /\ Done(o) /\ req[o].page = 0 /\ req[o].page_size = 10
        /\ clientsCreated = 1

---------------------------------------------------------------------------
(* C4 *)

ConnectionFailure(r) ==
    \/ \E i \in DOMAIN events[r] :
          events[r][i].op \in {"construct", "ping"} /\ Failed(events[r][i])
    \/ \E i \in DOMAIN events[r] :
          /\ events[r][i].op = "search"
          /\ events[r][i].reply.kind = "raise"
          /\ events[r][i].reply.exc = "ConnectionError"
InvalidQuery(r) ==
    \E i \in DOMAIN events[r] :
        /\ events[r][i].op = "search"
        /\ events[r][i].reply.kind = "raise"
        /\ events[r][i].reply.exc = "RequestError"
OtherException(r) ==
    \E i \in DOMAIN events[r] :
        /\ events[r][i].op = "search"
        /\ \/ /\ events[r][i].reply.kind = "raise"
              /\ events[r][i].reply.exc \notin {"ConnectionError", "RequestError"}
           \/ /\ events[r][i].reply.kind = "response"
              /\ ~events[r][i].reply.wellFormed

\* C4: for a validated request the failure class decides the status: a
\* connection failure (constructor, ping, or ConnectionError from search)
\* gives 503, a RequestError gives 400, any other exception gives 500, and
\* no failure gives 200.
C4_StatusByFailureClass ==
    \A r \in Requests :
        (Done(r) /\ MeetsConstraints(r)) =>
            /\ ConnectionFailure(r) => resp[r].status = 503
            /\ InvalidQuery(r) => resp[r].status = 400
            /\ OtherException(r) => resp[r].status = 500
            /\ ~(ConnectionFailure(r) \/ InvalidQuery(r) \/ OtherException(r))
                   => resp[r].status = 200

\* one request ended 503 on a ConnectionError of the search call, another 500
\* on a response the handler could not read
C4_Witness ==
    \E r, o \in Requests :
        /\ Done(r) /\ Len(SearchCalls(r)) = 1 /\ ConnectionFailure(r)
        /\ resp[r].status = 503
        /\ Done(o) /\ OtherException(o) /\ SearchReplyOf(o).kind = "response"
        /\ resp[o].status = 500

---------------------------------------------------------------------------
(* C5 *)

IndexReportedToExist ==
    \E i \in DOMAIN startupEvents :
        /\ startupEvents[i].op = "exists"
        /\ startupEvents[i].reply.kind = "true"
IndexReportedMissing ==
    \E i \in DOMAIN startupEvents :
        /\ startupEvents[i].op = "exists"
        /\ startupEvents[i].reply.kind = "false"

\* C5: the service serves (and a request is handled) only if at startup the
\* index name was set and non-empty and the engine reported that the index
\* exists; with the name unset or the index missing, startup ends failed.
C5_StartupGate ==
    /\ appState = "serving" =>
          /\ ES_INDEX.isSet
          /\ ES_INDEX.name # ""
          /\ IndexReportedToExist
    /\ \A r \in Requests : pc[r] # "idle" => appState = "serving"
    /\ (appState # "startup" /\ (~ES_INDEX.isSet \/ ES_INDEX.name = "" \/ IndexReportedMissing))
          => appState = "failed"

\* startup failed because the engine reported that the index does not exist
C5_Witness ==
    /\ appState = "failed"
    /\ ES_INDEX.isSet
    /\ ES_INDEX.name = "products"
    /\ IndexReportedMissing

---------------------------------------------------------------------------
(* C6 *)

FreshClient(r) ==
    /\ Cardinality(ClientsOf(r)) <= 1
    /\ ClientsOf(r) \cap StartupClients = {}
    /\ \A o \in Requests \ {r} : ClientsOf(r) \cap ClientsOf(o) = {}
    /\ \A i \in DOMAIN events[r] :
          IsEngineCall(events[r][i]) => events[r][i].client \in ClientsOf(r)

\* C6 as stated: every validated request that has returned used its own
\* client and made exactly one round trip to the engine.
C6_ExactlyOneRoundTrip ==
    \A r \in Requests :
        (Done(r) /\ MeetsConstraints(r)) =>
            /\ FreshClient(r)
            /\ Len(EngineCalls(r)) = 1

\* C6 amended: every validated request constructs its own client, used by no
\* other request and not by startup, and makes at most two round trips on
\* it: a ping and then, only after a successful ping, one search. A request
\* that returns 200 has made exactly these two; one whose constructor
\* raised has made none.
C6_FreshClientPingThenSearch ==
    \A r \in Requests :
        /\ FreshClient(r)
        /\ Len(EngineCalls(r)) <= 2
        /\ Len(EngineCalls(r)) >= 1 => EngineCalls(r)[1].op = "ping"
        /\ Len(EngineCalls(r)) = 2 =>
              /\ EngineCalls(r)[1].reply.kind = "true"
              /\ EngineCalls(r)[2].op = "search"
        /\ Succeeded(r) => Len(EngineCalls(r)) = 2
        /\ (Done(r) /\ MeetsConstraints(r) /\ ClientsOf(r) = {}) => EngineCalls(r) = <<>>
        /\ (Done(r) /\ MeetsConstraints(r)) => Len(events[r]) >= 1

\* both requests succeeded, each after a ping and a search on its own client
C6_Witness ==
    \E r, o \in Requests :
        /\ r # o
        /\ Succeeded(r) /\ Succeeded(o)
        /\ Len(EngineCalls(r)) = 2 /\ Len(EngineCalls(o)) = 2
        /\ ClientsOf(r) # ClientsOf(o)

---------------------------------------------------------------------------
(* C7 *)

\* C7: no retry: a request issues the search call at most once (and the ping
\* at most once), and after an engine call of the request has failed the
\* request issues no further engine call and returns an error.
C7_NoRetry ==
    \A r \in Requests :
        /\ Len(SearchCalls(r)) <= 1
        /\ Len(PingCalls(r)) <= 1
        /\ \A i \in DOMAIN events[r] :
              Failed(events[r][i]) =>
                  /\ i = Len(events[r])
                  /\ Done(r)
                  /\ resp[r].status \in {503, 400, 500}

\* one request returned 503 after its ping failed, another returned 400 after
\* its search failed, and neither made a further call
C7_Witness ==
    \E r, o \in Requests :
        /\ Done(r) /\ Len(PingCalls(r)) = 1 /\ Failed(PingCalls(r)[1])
        /\ SearchCalls(r) = <<>> /\ resp[r].status = 503
        /\ Done(o) /\ Len(SearchCalls(o)) = 1 /\ Failed(SearchCalls(o)[1])
        /\ resp[o].status = 400

---------------------------------------------------------------------------
(* C8 *)

\* the response of the handler run alone on parameters p, given the outcomes
\* ev of its own client construction and engine calls
AloneResponse(p, ev) ==
    IF ~ValidParams(p.page, p.page_size) THEN [status |-> UnprocessableEntity]
    ELSE LET construct == IF ev[1].reply.kind = "raise" THEN "raise" ELSE "ok"
             ping == IF Len(ev) >= 2 THEN ev[2].reply.kind ELSE "raise"
             raised == GetClientRaises(construct, ping)
         IN  IF raised # "none" THEN [status |-> HandlerStatus(raised)]
             ELSE SearchResponse(ev[3].reply, p)

\* C8: under every interleaving of the requests, the response of a request
\* and the query it sends are those of the handler run alone on the
\* request's own parameters and the engine's replies to its own calls.
C8_RequestsIsolated ==
    \A r \in Requests :
        /\ Done(r) => resp[r] = AloneResponse(req[r], events[r])
        /\ \A i \in DOMAIN events[r] :
              events[r][i].op = "search" =>
                  events[r][i].body =
                      SearchQuery(req[r].query, (req[r].page - 1) * req[r].page_size,
                                  req[r].page_size)

\* request o was received, got its client and returned 200 while request r,
\* with other parameters and an older client, was still in flight
C8_Witness ==
    \E r, o \in Requests :
        /\ pc[r] = "searching"
        /\ Succeeded(o)
        /\ req[r].page_size # req[o].page_size
        /\ req[r].page # req[o].page
        /\ \A c \in ClientsOf(r) : \A d \in ClientsOf(o) : c < d

---------------------------------------------------------------------------
(* C9 *)

\* C9: on success the response's hits have the length and order of the
\* engine's hits, and the i-th is {id, score, source, highlights} from the
\* i-th engine hit's _id, _score, _source and highlight, with highlights
\* empty when the engine hit has no highlight.
C9_HitsFormatted ==
    \A r \in Requests :
        Succeeded(r) =>
            LET engine_hits == SearchReplyOf(r).hits
                hits == resp[r].hits
            IN  /\ Len(hits) = Len(engine_hits)
                /\ \A i \in 1..Len(engine_hits) :
                      /\ DOMAIN hits[i] = {"id", "score", "source", "highlights"}
                      /\ hits[i].id = engine_hits[i]._id
                      /\ hits[i].score = engine_hits[i]._score
                      /\ hits[i].source = engine_hits[i]._source
                      /\ "highlight" \in DOMAIN engine_hits[i]
                            => hits[i].highlights = engine_hits[i].highlight
                      /\ "highlight" \notin DOMAIN engine_hits[i]
                            => hits[i].highlights = {}

\* a success with two hits, the first without a highlight, the second with one
C9_Witness ==
    \E r \in Requests :
        /\ Succeeded(r)
        /\ Len(resp[r].hits) = 2
        /\ resp[r].hits[1].id = "p2" /\ resp[r].hits[1].highlights = {}
        /\ resp[r].hits[2].id = "p1" /\ resp[r].hits[2].highlights # {}

---------------------------------------------------------------------------
(* C10 *)

\* C10: a successful response echoes the request's page and page_size, and
\* the page is not checked against total_pages: whenever the engine answered
\* the search of a validated request with a readable response, the request
\* succeeds with the requested page, also when page > total_pages.
C10_PageEchoedNotClamped ==
    \A r \in Requests :
        /\ Succeeded(r) =>
              /\ resp[r].page = req[r].page
              /\ resp[r].page_size = req[r].page_size
        /\ (/\ Done(r)
            /\ Len(SearchCalls(r)) = 1
            /\ SearchReplyOf(r).kind = "response"
            /\ SearchReplyOf(r).wellFormed)
              => /\ resp[r].status = 200
                 /\ resp[r].page = req[r].page

\* successes beyond the last page: page 2 of a single page, and page 1 of none
C10_Witness ==
    \E r, o \in Requests :
        /\ Succeeded(r) /\ resp[r].page = 2 /\ resp[r].total_pages = 1
        /\ Succeeded(o) /\ resp[o].page = 1 /\ resp[o].total = 0 /\ resp[o].total_pages = 0

====
